---- MODULE Spec2Model ----
(***************************************************************************)
(* A model of strview.c: string views (pointer + size pairs) over a flat   *)
(* byte memory, and the search / slice / split operations on them.         *)
(*                                                                         *)
(* Memory layout.  Address 0 is NULL.  The text under examination, mem,    *)
(* occupies addresses 1..Len(mem) and is followed by its NUL terminator.   *)
(* String literals used as arguments (delimiter sets, "\r\n") live in a    *)
(* literal pool at addresses above every text address.  A view is the      *)
(* record [data |-> address, size |-> int] of strview_t.  Pointer          *)
(* comparison is comparison of addresses (flat address space).             *)
(* Characters are their ASCII codes.                                       *)
(***************************************************************************)
EXTENDS Integers, Sequences, FiniteSets, TLC

VARIABLES
    mem,    \* the bytes of the text storage, mem[a] is the byte at address a
    src,    \* the caller's source view (the *strview_ptr of the splitters)
    res,    \* the value returned by the last call
    pre,    \* the source view as it was before the last call
    op,     \* the name of the last operation called
    arg,    \* the arguments of the last call
    eol,    \* the caller's eol discriminator variable (char* eol points to it)
    hist,   \* the pieces returned so far by a splitting loop
    cuts    \* buffered input: the sizes of the buffers received so far

vars == <<mem, src, res, pre, op, arg, eol, hist, cuts>>

----------------------------------------------------------------------------
(* Bounds and alphabets *)

\* longest text examined exhaustively
MaxLen == 3

\* '\r' and '\n'
CR == 13
LF == 10

\* '/', 'A', 'a' : a delimiter and a letter in both cases
Chars == {47, 65, 97}

\* '\n', '\r', 'a' : the alphabet of the line splitting runs
LineChars == {LF, CR, 97}

\* 'A', 'a' : the alphabet of the strview_sub runs
SubChars == {65, 97}

\* "line1\r\nline2\rline3", the split_line scenario
ScenarioText ==
    <<108, 105, 110, 101, 49, CR, LF, 108, 105, 110, 101, 50, CR,
      108, 105, 110, 101, 51>>

\* INT_MAX and INT_MIN of the 32 bit int that holds sizes and indexes
IntMax == 2147483647
IntMin == 0 - IntMax - 1

Strings(S, n) == UNION {[1..k -> S] : k \in 0..n}

\* index arguments: every offset around the text, and the extreme ints
IdxSet == (0 - (MaxLen + 2))..(MaxLen + 2) \cup {IntMin, IntMax}

----------------------------------------------------------------------------
(* Memory *)

\* the literal pool: "\r\n", "/", "a", "/a", ""  (each NUL terminated)
Lits == <<CR, LF, 0, 47, 0, 97, 0, 47, 97, 0, 0>>

\* first address below the literal pool
LitBase == MaxLen + Len(ScenarioText) + 2

LitAddr(j) == LitBase + j

\* *(char*)a
Byte(a) ==
    IF a \in 1..Len(mem) THEN mem[a]
    ELSE IF a \in (LitBase + 1)..(LitBase + Len(Lits)) THEN Lits[a - LitBase]
    ELSE 0

RECURSIVE strlen(_)
strlen(p) == IF Byte(p) = 0 THEN 0 ELSE 1 + strlen(p + 1)

----------------------------------------------------------------------------
(* Views *)

STRVIEW_INVALID == [data |-> 0, size |-> 0]

cstr(c_str) ==
    IF c_str # 0 THEN [data |-> c_str, size |-> strlen(c_str)]
    ELSE STRVIEW_INVALID

strview_is_valid(str) == str.data # 0

toupper(c) == IF c \in 97..122 THEN c - 32 ELSE c

\* the bytes a view spans, as a sequence
Content(v) ==
    IF v.data = 0 \/ v.size <= 0 THEN << >>
    ELSE [i \in 1..v.size |-> Byte(v.data + i - 1)]

\* the views of the literal pool
LitCRLF  == cstr(LitAddr(1))
LitSlash == cstr(LitAddr(4))
LitA     == cstr(LitAddr(6))
LitSlashA == cstr(LitAddr(8))
LitEmpty == cstr(LitAddr(11))

\* every well-formed valid view into the text
TextViews ==
    {v \in [data : 1..(Len(mem) + 1), size : 0..Len(mem)] :
        v.data + v.size <= Len(mem) + 1}

----------------------------------------------------------------------------
(* Private functions of strview.c *)

RECURSIVE contains_char_from(_, _, _, _)
contains_char_from(str, ptr, c, case_sensetive) ==
    IF ptr = str.data + str.size THEN FALSE
    ELSE IF (IF case_sensetive THEN Byte(ptr) = c
             ELSE toupper(Byte(ptr)) = toupper(c)) THEN TRUE
    ELSE contains_char_from(str, ptr + 1, c, case_sensetive)

contains_char(str, c, case_sensetive) ==
    contains_char_from(str, str.data, c, case_sensetive)

\* the forward scan of split_first_delimeter: the address it stops at
RECURSIVE scan_first(_, _, _, _)
scan_first(ptr, end, delimiters, case_sensetive) ==
    IF ptr = end THEN [found |-> FALSE, ptr |-> ptr]
    ELSE IF contains_char(delimiters, Byte(ptr), case_sensetive)
         THEN [found |-> TRUE, ptr |-> ptr]
    ELSE scan_first(ptr + 1, end, delimiters, case_sensetive)

\* faulty variant: invalidates the source when the delimiter is its last byte
split_first_delimeter_lastinvalid(sv, delimiters, case_sensetive) ==
    LET s == IF sv.data # 0 /\ delimiters.data # 0
             THEN scan_first(sv.data, sv.data + sv.size, delimiters, case_sensetive)
             ELSE [found |-> FALSE, ptr |-> sv.data]
        rsize == s.ptr - sv.data
        nsize == sv.size - rsize - 1
    IN  IF s.found
        THEN [res |-> [data |-> sv.data, size |-> rsize],
              src |-> IF nsize # 0 THEN [data |-> s.ptr + 1, size |-> nsize]
                      ELSE STRVIEW_INVALID]
        ELSE [res |-> sv, src |-> STRVIEW_INVALID]

split_first_delimeter(sv, delimiters, case_sensetive) ==
    LET s == IF sv.data # 0 /\ delimiters.data # 0
             THEN scan_first(sv.data, sv.data + sv.size, delimiters, case_sensetive)
             ELSE [found |-> FALSE, ptr |-> sv.data]
        rsize == s.ptr - sv.data
        nsize == sv.size - rsize - 1
    IN  IF s.found
        THEN [res |-> [data |-> sv.data, size |-> rsize],
              src |-> [data |-> IF nsize # 0 THEN s.ptr + 1 ELSE s.ptr,
                       size |-> nsize]]
        ELSE [res |-> sv, src |-> STRVIEW_INVALID]

\* the backward scan of split_last_delimeter
RECURSIVE scan_last(_, _, _, _)
scan_last(ptr, stop, delimiters, case_sensetive) ==
    IF ptr = stop THEN [found |-> FALSE, ptr |-> ptr]
    ELSE IF contains_char(delimiters, Byte(ptr), case_sensetive)
         THEN [found |-> TRUE, ptr |-> ptr]
    ELSE scan_last(ptr - 1, stop, delimiters, case_sensetive)

\* faulty variant: leaves the delimiter at the end of the source
split_last_delimeter_keepdelim(sv, delimiters, case_sensetive) ==
    LET s == IF sv.data # 0 /\ sv.size # 0 /\ delimiters.data # 0
             THEN scan_last(sv.data + sv.size - 1, sv.data - 1, delimiters, case_sensetive)
             ELSE [found |-> FALSE, ptr |-> 0]
        rsize == (sv.data + sv.size) - s.ptr
    IN  IF s.found
        THEN [res |-> [data |-> IF rsize - 1 # 0 THEN s.ptr + 1 ELSE s.ptr,
                       size |-> rsize - 1],
              src |-> [data |-> sv.data, size |-> sv.size - rsize + 1]]
        ELSE [res |-> sv, src |-> STRVIEW_INVALID]

split_last_delimeter(sv, delimiters, case_sensetive) ==
    LET s == IF sv.data # 0 /\ sv.size # 0 /\ delimiters.data # 0
             THEN scan_last(sv.data + sv.size - 1, sv.data - 1, delimiters, case_sensetive)
             ELSE [found |-> FALSE, ptr |-> 0]
        rsize == (sv.data + sv.size) - s.ptr
    IN  IF s.found
        THEN [res |-> [data |-> IF rsize - 1 # 0 THEN s.ptr + 1 ELSE s.ptr,
                       size |-> rsize - 1],
              src |-> [data |-> sv.data, size |-> sv.size - rsize]]
        ELSE [res |-> sv, src |-> STRVIEW_INVALID]

\* faulty variant: a negative index returns the head instead of the tail
split_index_headfirst(sv, index) ==
    LET neg == index < 0
        i1  == IF neg THEN sv.size + index ELSE index
        i2  == IF i1 < 0 THEN 0 ELSE i1
        i3  == IF i2 > sv.size THEN sv.size ELSE i2
        result    == [data |-> sv.data, size |-> i3]
        remainder == [data |-> sv.data + i3, size |-> sv.size - i3]
    IN  [res |-> result, src |-> remainder]

split_index(sv, index) ==
    LET neg == index < 0
        i1  == IF neg THEN sv.size + index ELSE index
        i2  == IF i1 < 0 THEN 0 ELSE i1
        i3  == IF i2 > sv.size THEN sv.size ELSE i2
        result    == [data |-> sv.data, size |-> i3]
        remainder == [data |-> sv.data + i3, size |-> sv.size - i3]
    IN  IF ~neg THEN [res |-> result, src |-> remainder]
        ELSE [res |-> remainder, src |-> result]

----------------------------------------------------------------------------
(* Public functions of strview.c.  The splitters take the source view by   *)
(* value and return [res |-> the returned view, src |-> the source view    *)
(* the call leaves in *strview_ptr]; strview_ptr itself is never NULL.     *)

strview_split_first_delimeter(sv, delimiters) ==
    split_first_delimeter(sv, delimiters, TRUE)

strview_split_first_delimiter_nocase(sv, delimiters) ==
    split_first_delimeter(sv, delimiters, FALSE)

strview_split_last_delimeter(sv, delimiters) ==
    split_last_delimeter(sv, delimiters, TRUE)

strview_split_last_delimeter_nocase(sv, delimiters) ==
    split_last_delimeter(sv, delimiters, FALSE)

strview_split_index(sv, index) == split_index(sv, index)

\* returns [ch |-> the popped character, src |-> the source left]
strview_pop_first_char(sv) ==
    IF sv.size # 0
    THEN LET r == split_index(sv, 1) IN [ch |-> Byte(r.res.data), src |-> r.src]
    ELSE [ch |-> 0, src |-> sv]

\* faulty variant: the upper limit of pos is not tested
strview_split_left_nolimit(sv, pos) ==
    IF strview_is_valid(sv) /\ strview_is_valid(pos) /\ sv.data <= pos.data
    THEN split_index(sv, pos.data - sv.data)
    ELSE [res |-> STRVIEW_INVALID, src |-> sv]

strview_split_left(sv, pos) ==
    IF strview_is_valid(sv) /\ strview_is_valid(pos)
       /\ sv.data <= pos.data /\ pos.data <= sv.data + sv.size
    THEN split_index(sv, pos.data - sv.data)
    ELSE [res |-> STRVIEW_INVALID, src |-> sv]

\* faulty variant: the two halves are not swapped
strview_split_right_noswap(sv, pos) ==
    LET split_point == pos.data + pos.size IN
    IF strview_is_valid(sv) /\ strview_is_valid(pos)
       /\ sv.data <= split_point /\ split_point <= sv.data + sv.size
    THEN split_index(sv, split_point - sv.data)
    ELSE [res |-> STRVIEW_INVALID, src |-> sv]

strview_split_right(sv, pos) ==
    LET split_point == pos.data + pos.size IN
    IF strview_is_valid(sv) /\ strview_is_valid(pos)
       /\ sv.data <= split_point /\ split_point <= sv.data + sv.size
    THEN LET r == split_index(sv, split_point - sv.data)
         IN  [res |-> r.src, src |-> r.res]
    ELSE [res |-> STRVIEW_INVALID, src |-> sv]

\* faulty variant: a rejected range leaves the result anchored, not Invalid
strview_sub_emptyanchor(str, begin, end) ==
    IF str.data # 0 /\ str.size # 0
    THEN LET b == IF begin < 0 THEN str.size + begin ELSE begin
             e == IF end < 0 THEN str.size + end ELSE end
         IN  IF b <= e /\ b < str.size /\ e >= 0
             THEN LET b2 == IF b < 0 THEN 0 ELSE b
                      e2 == IF e > str.size THEN str.size ELSE e
                  IN  [data |-> str.data + b2, size |-> e2 - b2]
             ELSE [data |-> str.data, size |-> 0]
    ELSE [data |-> str.data, size |-> 0]

\* faulty variant: an end beyond the length is not clipped
strview_sub_noclip(str, begin, end) ==
    IF str.data # 0 /\ str.size # 0
    THEN LET b == IF begin < 0 THEN str.size + begin ELSE begin
             e == IF end < 0 THEN str.size + end ELSE end
         IN  IF b <= e /\ b < str.size /\ e >= 0
             THEN LET b2 == IF b < 0 THEN 0 ELSE b
                  IN  [data |-> str.data + b2, size |-> e - b2]
             ELSE [data |-> 0, size |-> 0]
    ELSE [data |-> str.data, size |-> 0]

strview_sub(str, begin, end) ==
    IF str.data # 0 /\ str.size # 0
    THEN LET b == IF begin < 0 THEN str.size + begin ELSE begin
             e == IF end < 0 THEN str.size + end ELSE end
         IN  IF b <= e /\ b < str.size /\ e >= 0
             THEN LET b2 == IF b < 0 THEN 0 ELSE b
                      e2 == IF e > str.size THEN str.size ELSE e
                  IN  [data |-> str.data + b2, size |-> e2 - b2]
             ELSE [data |-> 0, size |-> 0]
    ELSE [data |-> str.data, size |-> 0]

\* strview_split_line up to its scan: the local copy src of the source, with
\* its first byte popped when it completes the pending terminator half.
\* eolp tells whether the eol pointer is non-NULL, eolv is the char it holds.
line_scan_start(sv, eolp, eolv) ==
    IF eolp /\ eolv # 0 /\ eolv + Byte(sv.data) = CR + LF
    THEN strview_pop_first_char(sv).src
    ELSE sv

\* faulty variant: the complementary byte after the terminator is not consumed
strview_split_line_nopair(sv, eolp, eolv) ==
    IF sv.size # 0
    THEN LET r == strview_split_first_delimeter(line_scan_start(sv, eolp, eolv),
                                                cstr(LitAddr(1)))
         IN  IF strview_is_valid(r.src)
             THEN [res |-> r.res, src |-> r.src,
                   eol |-> IF eolp THEN Byte(r.res.data + r.res.size) ELSE eolv]
             ELSE [res |-> STRVIEW_INVALID, src |-> r.res, eol |-> eolv]
    ELSE [res |-> STRVIEW_INVALID, src |-> sv, eol |-> eolv]

\* returns [res, src, eol |-> the char left in *eol]
strview_split_line(sv, eolp, eolv) ==
    IF sv.size # 0
    THEN LET r == strview_split_first_delimeter(line_scan_start(sv, eolp, eolv),
                                                cstr(LitAddr(1)))
         IN  IF strview_is_valid(r.src)
             THEN LET e == Byte(r.res.data + r.res.size)
                      pair == e + Byte(r.src.data) = CR + LF
                  IN  [res |-> r.res,
                       src |-> IF pair THEN strview_pop_first_char(r.src).src
                               ELSE r.src,
                       eol |-> IF eolp THEN (IF pair THEN 0 ELSE e) ELSE eolv]
             ELSE [res |-> STRVIEW_INVALID, src |-> r.res, eol |-> eolv]
    ELSE [res |-> STRVIEW_INVALID, src |-> sv, eol |-> eolv]

\* memcmp: 0 when the n bytes at a and b are equal, else the difference of
\* the first two bytes that differ
RECURSIVE memcmp(_, _, _)
memcmp(a, b, n) ==
    IF n = 0 THEN 0
    ELSE IF Byte(a) # Byte(b) THEN Byte(a) - Byte(b)
    ELSE memcmp(a + 1, b + 1, n - 1)

\* the forward scan of strview_find_first: the address it stops at
RECURSIVE find_first_from(_, _, _)
find_first_from(haystack, needle, remaining_hay) ==
    IF (haystack.data + haystack.size) - remaining_hay >= needle.size
    THEN IF memcmp(remaining_hay, needle.data, needle.size) = 0
         THEN [found |-> TRUE, ptr |-> remaining_hay]
         ELSE find_first_from(haystack, needle, remaining_hay + 1)
    ELSE [found |-> FALSE, ptr |-> remaining_hay]

\* faulty variant: the scan stops one byte before the end of the haystack
strview_find_first_missend(haystack, needle) ==
    LET s == IF haystack.data # 0 /\ needle.data # 0
             THEN find_first_from([haystack EXCEPT !.size = haystack.size - 1],
                                  needle, haystack.data)
             ELSE [found |-> FALSE, ptr |-> haystack.data]
    IN  IF s.found THEN [data |-> s.ptr, size |-> needle.size]
        ELSE STRVIEW_INVALID

strview_find_first(haystack, needle) ==
    LET s == IF haystack.data # 0 /\ needle.data # 0
             THEN find_first_from(haystack, needle, haystack.data)
             ELSE [found |-> FALSE, ptr |-> haystack.data]
    IN  IF s.found THEN [data |-> s.ptr, size |-> needle.size]
        ELSE STRVIEW_INVALID

\* the backward scan of strview_find_last
RECURSIVE find_last_from(_, _, _)
find_last_from(haystack, needle, remaining_hay) ==
    IF remaining_hay >= haystack.data
    THEN IF memcmp(remaining_hay, needle.data, needle.size) = 0
         THEN [found |-> TRUE, ptr |-> remaining_hay]
         ELSE find_last_from(haystack, needle, remaining_hay - 1)
    ELSE [found |-> FALSE, ptr |-> remaining_hay]

strview_find_last(haystack, needle) ==
    LET start == haystack.data + (haystack.size - needle.size)
        s == IF haystack.data # 0 /\ needle.data # 0
             THEN find_last_from(haystack, needle, start)
             ELSE [found |-> FALSE, ptr |-> start]
    IN  IF s.found THEN [data |-> s.ptr, size |-> needle.size]
        ELSE STRVIEW_INVALID

strview_contains(haystack, needle) ==
    strview_is_valid(strview_find_first(haystack, needle))

RECURSIVE memcmp_nocase(_, _, _)
memcmp_nocase(a, b, size) ==
    IF size = 0 THEN 0
    ELSE IF toupper(Byte(a)) # toupper(Byte(b))
         THEN toupper(Byte(a)) - toupper(Byte(b))
    ELSE memcmp_nocase(a + 1, b + 1, size - 1)

strview_is_match(str1, str2) ==
    /\ str1.size = str2.size
    /\ \/ str1.data = str2.data
       \/ memcmp(str1.data, str2.data, str1.size) = 0

strview_is_match_nocase(str1, str2) ==
    /\ str1.size = str2.size
    /\ \/ str1.data = str2.data
       \/ memcmp_nocase(str1.data, str2.data, str1.size) = 0

strview_compare(str1, str2) ==
    LET compare_size == IF str1.size < str2.size THEN str1.size ELSE str2.size
        result == IF compare_size # 0
                  THEN memcmp(str1.data, str2.data, compare_size) ELSE 0
    IN  IF result = 0 /\ str1.size # str2.size
        THEN (IF str1.size > str2.size THEN 1 ELSE 0 - 1)
        ELSE result

RECURSIVE strview_trim_start(_, _)
strview_trim_start(str, chars_to_trim) ==
    IF str.size # 0 /\ contains_char(chars_to_trim, Byte(str.data), TRUE)
    THEN strview_trim_start([data |-> str.data + 1, size |-> str.size - 1],
                            chars_to_trim)
    ELSE str

RECURSIVE strview_trim_end(_, _)
strview_trim_end(str, chars_to_trim) ==
    IF /\ str.size # 0
       /\ contains_char(chars_to_trim, Byte(str.data + str.size - 1), TRUE)
    THEN strview_trim_end([str EXCEPT !.size = str.size - 1], chars_to_trim)
    ELSE str

\* a trim that leaves the end alone
strview_trim_startonly(str, chars_to_trim) ==
    strview_trim_start(str, chars_to_trim)

strview_trim(str, chars_to_trim) ==
    strview_trim_end(strview_trim_start(str, chars_to_trim), chars_to_trim)

strview_starts_with(str1, str2) ==
    IF ~strview_is_valid(str2) THEN ~strview_is_valid(str1)
    ELSE /\ str1.size >= str2.size
         /\ \/ str1.data = str2.data
            \/ memcmp(str1.data, str2.data, str2.size) = 0

strview_starts_with_nocase(str1, str2) ==
    IF ~strview_is_valid(str2) THEN ~strview_is_valid(str1)
    ELSE /\ str1.size >= str2.size
         /\ \/ str1.data = str2.data
            \/ memcmp_nocase(str1.data, str2.data, str2.size) = 0

\* returns [a |-> the view left in *a, b |-> the view left in *b]
strview_swap(a, b) == [a |-> b, b |-> a]

\* the text m after char c is written at address p; the NUL that ends the
\* text is at Len(m) + 1, outside the sequence
Store(m, p, c) == IF p \in 1..Len(m) THEN [m EXCEPT ![p] = c] ELSE m

\* the char at address p of the text m
Load(m, p) == IF p \in 1..Len(m) THEN m[p] ELSE Byte(p)

\* a copy of n bytes that proceeds from the first byte to the last
RECURSIVE copy_up(_, _, _, _)
copy_up(m, dst, s, n) ==
    IF n = 0 THEN m
    ELSE copy_up(Store(m, dst, Load(m, s)), dst + 1, s + 1, n - 1)

\* a copy of n bytes that proceeds from the last byte to the first
RECURSIVE copy_down(_, _, _, _)
copy_down(m, dst, s, n) ==
    IF n = 0 THEN m
    ELSE copy_down(Store(m, dst + n - 1, Load(m, s + n - 1)), dst, s, n - 1)

\* memcpy: the texts it can leave.  When the two ranges overlap the
\* behaviour is undefined: the copy may proceed in either direction.
memcpy(m, dst, s, n) ==
    IF n > 0 /\ dst - s < n /\ s - dst < n
    THEN {copy_up(m, dst, s, n), copy_down(m, dst, s, n)}
    ELSE {copy_up(m, dst, s, n)}

\* the texts strview_to_cstr can leave when the destination is at address
\* dst of the text m (dst = 0 is NULL)
strview_to_cstr(m, dst, dst_size, str) ==
    IF dst_size # 0 /\ dst # 0
    THEN LET src_size == IF str.size < 0 THEN 0 ELSE str.size
             copy_size == IF dst_size - 1 < src_size
                          THEN dst_size - 1 ELSE src_size
         IN  {Store(c, dst + copy_size, 0) :
                  c \in memcpy(m, dst, str.data, copy_size)}
    ELSE {m}

----------------------------------------------------------------------------
(* The splitting machine: a text is wrapped by cstr and then split by any  *)
(* sequence of delimiter, index and position splits.                       *)

NoArg == [delimiters |-> STRVIEW_INVALID, nocase |-> FALSE, index |-> 0,
          pos |-> STRVIEW_INVALID, end |-> 0, eolp |-> FALSE, eol |-> 0,
          view |-> STRVIEW_INVALID]

\* the delimiter sets tried: "/", "a", "/a", "" and an invalid view
DelimSets == {LitSlash, LitA, LitSlashA, LitEmpty, STRVIEW_INVALID}

\* the positions tried: every view into the text, a literal, an invalid view
PosSet == TextViews \cup {LitSlashA, STRVIEW_INVALID}

Init ==
    /\ mem \in Strings(Chars, MaxLen)
    /\ src = cstr(1)
    /\ res = STRVIEW_INVALID
    /\ pre = src
    /\ op = "cstr"
    /\ arg = NoArg
    /\ eol = 0
    /\ hist = << >>
    /\ cuts = << >>

Call(name, a, r) ==
    /\ op' = name
    /\ arg' = a
    /\ pre' = src
    /\ res' = r.res
    /\ src' = r.src
    /\ UNCHANGED <<mem, eol, hist, cuts>>

SplitFirstDelimeter ==
    \E d \in DelimSets :
        Call("split_first_delimeter", [NoArg EXCEPT !.delimiters = d],
             strview_split_first_delimeter(src, d))

SplitFirstDelimiterNocase ==
    \E d \in DelimSets :
        Call("split_first_delimeter",
             [NoArg EXCEPT !.delimiters = d, !.nocase = TRUE],
             strview_split_first_delimiter_nocase(src, d))

SplitLastDelimeter ==
    \E d \in DelimSets :
        Call("split_last_delimeter", [NoArg EXCEPT !.delimiters = d],
             strview_split_last_delimeter(src, d))

SplitLastDelimeterNocase ==
    \E d \in DelimSets :
        Call("split_last_delimeter",
             [NoArg EXCEPT !.delimiters = d, !.nocase = TRUE],
             strview_split_last_delimeter_nocase(src, d))

SplitIndex ==
    \E n \in IdxSet :
        Call("split_index", [NoArg EXCEPT !.index = n], strview_split_index(src, n))

SplitLeft ==
    \E p \in PosSet :
        Call("split_left", [NoArg EXCEPT !.pos = p], strview_split_left(src, p))

SplitRight ==
    \E p \in PosSet :
        Call("split_right", [NoArg EXCEPT !.pos = p], strview_split_right(src, p))

Next ==
    \/ SplitFirstDelimeter
    \/ SplitFirstDelimiterNocase
    \/ SplitLastDelimeter
    \/ SplitLastDelimeterNocase
    \/ SplitIndex
    \/ SplitLeft
    \/ SplitRight

Spec == Init /\ [][Next]_vars

----------------------------------------------------------------------------
(* The delimiter loop: a view of the text is split by one delimiter set,   *)
(* first delimiter by first delimiter, until the source becomes Invalid.   *)
(* arg.view keeps the view the loop started from, hist the returned views. *)

\* the non-empty delimiter sets: "/", "a", "/a"
LoopDelimSets == {LitSlash, LitA, LitSlashA}

InitLoop ==
    /\ mem \in Strings(Chars, MaxLen)
    /\ src \in TextViews
    /\ res = STRVIEW_INVALID
    /\ pre = src
    /\ op = "cstr"
    /\ \E d \in LoopDelimSets, nc \in BOOLEAN :
          arg = [NoArg EXCEPT !.delimiters = d, !.nocase = nc, !.view = src]
    /\ eol = 0
    /\ hist = << >>
    /\ cuts = << >>

LoopStep(r) ==
    /\ strview_is_valid(src)
    /\ op' = "split_first_delimeter"
    /\ pre' = src
    /\ res' = r.res
    /\ src' = r.src
    /\ hist' = Append(hist, r.res)
    /\ UNCHANGED <<mem, arg, eol, cuts>>

LoopSplitFirst ==
    /\ ~arg.nocase
    /\ LoopStep(strview_split_first_delimeter(src, arg.delimiters))

LoopSplitFirstNocase ==
    /\ arg.nocase
    /\ LoopStep(strview_split_first_delimiter_nocase(src, arg.delimiters))

NextLoop == LoopSplitFirst \/ LoopSplitFirstNocase

SpecLoop == InitLoop /\ [][NextLoop]_vars

----------------------------------------------------------------------------
(* The line reader: a text arrives in successive buffers.  The caller      *)
(* appends each buffer to the unconsumed remainder of its source view and  *)
(* calls strview_split_line, with the same eol variable (initially 0) or   *)
(* with a NULL eol, until it returns Invalid; then it waits for the next   *)
(* buffer.  cuts holds the sizes of the buffers received, hist the lines   *)
(* returned (their bytes).  The bytes received so far are mem[1..fed].     *)

RECURSIVE SumSeq(_)
SumSeq(q) == IF q = << >> THEN 0 ELSE Head(q) + SumSeq(Tail(q))

BytesFed == SumSeq(cuts)

InitBuf ==
    /\ mem \in Strings(LineChars, MaxLen) \cup {ScenarioText}
    /\ src = [data |-> 1, size |-> 0]
    /\ res = STRVIEW_INVALID
    /\ pre = src
    /\ op = "open"
    /\ \E p \in BOOLEAN : arg = [NoArg EXCEPT !.eolp = p]
    /\ eol = 0
    /\ hist = << >>
    /\ cuts = << >>

\* A buffer of k bytes arrives.  The unconsumed remainder is the last
\* src.size bytes received; the source view becomes the view of that
\* remainder followed by the new bytes.  Texts longer than MaxLen arrive
\* in one buffer.
Feed ==
    /\ op = "open" \/ (op = "split_line" /\ ~strview_is_valid(res))
    /\ \E k \in 1..(Len(mem) - BytesFed) :
          /\ Len(mem) > MaxLen => k = Len(mem)
          /\ cuts' = Append(cuts, k)
          /\ src' = [data |-> 1 + BytesFed - src.size, size |-> src.size + k]
    /\ op' = "feed"
    /\ pre' = src
    /\ UNCHANGED <<mem, res, arg, eol, hist>>

SplitLine ==
    /\ op = "feed" \/ (op = "split_line" /\ strview_is_valid(res))
    /\ LET r == strview_split_line(src, arg.eolp, eol) IN
          /\ res' = r.res
          /\ src' = r.src
          /\ eol' = r.eol
          /\ hist' = IF strview_is_valid(r.res)
                     THEN Append(hist, Content(r.res)) ELSE hist
    /\ op' = "split_line"
    /\ pre' = src
    /\ arg' = [arg EXCEPT !.eol = eol]
    /\ UNCHANGED <<mem, cuts>>

NextBuf == Feed \/ SplitLine

SpecBuf == InitBuf /\ [][NextBuf]_vars

----------------------------------------------------------------------------
(* The slicer: strview_sub applied to any view of a text.                  *)

InitSub ==
    /\ mem \in Strings(SubChars, MaxLen)
    /\ src \in TextViews \cup {STRVIEW_INVALID}
    /\ res = STRVIEW_INVALID
    /\ pre = src
    /\ op = "cstr"
    /\ arg = NoArg
    /\ eol = 0
    /\ hist = << >>
    /\ cuts = << >>

Sub ==
    \E b \in IdxSet, e \in IdxSet :
        /\ op' = "sub"
        /\ arg' = [NoArg EXCEPT !.index = b, !.end = e]
        /\ pre' = src
        /\ res' = strview_sub(src, b, e)
        /\ UNCHANGED <<mem, src, eol, hist, cuts>>

NextSub == Sub

SpecSub == InitSub /\ [][NextSub]_vars

----------------------------------------------------------------------------
(* The searcher: a needle is searched in any view of a text.  src is the   *)
(* haystack, arg.view the needle, res what the call returns (a view, or a  *)
(* boolean for strview_contains).                                          *)

\* the needles tried: every view into the text, "/", "a", "/a", "" and an
\* invalid view
NeedleSet ==
    TextViews \cup {LitSlash, LitA, LitSlashA, LitEmpty, STRVIEW_INVALID}

InitFind ==
    /\ mem \in Strings(Chars, MaxLen)
    /\ src \in TextViews \cup {STRVIEW_INVALID}
    /\ res = STRVIEW_INVALID
    /\ pre = src
    /\ op = "cstr"
    /\ arg = NoArg
    /\ eol = 0
    /\ hist = << >>
    /\ cuts = << >>

Searched(name, n, r) ==
    /\ op = "cstr"
    /\ op' = name
    /\ arg' = [NoArg EXCEPT !.view = n]
    /\ pre' = src
    /\ res' = r
    /\ UNCHANGED <<mem, src, eol, hist, cuts>>

FindFirst ==
    \E n \in NeedleSet :
        Searched("find_first", n, strview_find_first(src, n))

FindLast ==
    \E n \in NeedleSet :
        Searched("find_last", n, strview_find_last(src, n))

Contains ==
    \E n \in NeedleSet :
        Searched("contains", n, strview_contains(src, n))

NextFind == FindFirst \/ FindLast \/ Contains

SpecFind == InitFind /\ [][NextFind]_vars

----------------------------------------------------------------------------
(* The comparer: two views are matched or compared.  src is the first      *)
(* operand, arg.view the second, res the boolean or int returned.  The     *)
(* operands of the match functions include Invalid views that store a      *)
(* length other than 0.                                                    *)

\* the well-formed operands: every view into the text, "a", "" and
\* STRVIEW_INVALID
CmpViews == TextViews \cup {LitA, LitEmpty, STRVIEW_INVALID}

\* Invalid views with a stored length
StaleInvalid == {[data |-> 0, size |-> n] : n \in 0..MaxLen}

\* the match functions pass a NULL pointer to a comparison of n > 0 bytes:
\* the behaviour is undefined
MatchDerefsNull(a, b) ==
    /\ a.size = b.size
    /\ a.size # 0
    /\ a.data # b.data
    /\ (a.data = 0 \/ b.data = 0)

InitCmp ==
    /\ mem \in Strings(Chars, MaxLen)
    /\ src \in CmpViews \cup StaleInvalid
    /\ res = STRVIEW_INVALID
    /\ pre = src
    /\ op = "cstr"
    /\ arg = NoArg
    /\ eol = 0
    /\ hist = << >>
    /\ cuts = << >>

Compared(name, b, results) ==
    /\ op = "cstr"
    /\ op' = name
    /\ arg' = [NoArg EXCEPT !.view = b]
    /\ pre' = src
    /\ res' \in results
    /\ UNCHANGED <<mem, src, eol, hist, cuts>>

IsMatch ==
    \E b \in CmpViews \cup StaleInvalid :
        Compared("is_match", b,
                 IF MatchDerefsNull(src, b) THEN BOOLEAN
                 ELSE {strview_is_match(src, b)})

IsMatchNocase ==
    \E b \in CmpViews \cup StaleInvalid :
        Compared("is_match_nocase", b,
                 IF MatchDerefsNull(src, b) THEN BOOLEAN
                 ELSE {strview_is_match_nocase(src, b)})

\* the prefix tests pass a NULL pointer to a comparison of n > 0 bytes:
\* the behaviour is undefined
StartsDerefsNull(a, b) ==
    /\ strview_is_valid(b)
    /\ a.size >= b.size
    /\ b.size # 0
    /\ a.data = 0

StartsWith ==
    \E b \in CmpViews \cup StaleInvalid :
        Compared("starts_with", b,
                 IF StartsDerefsNull(src, b) THEN BOOLEAN
                 ELSE {strview_starts_with(src, b)})

StartsWithNocase ==
    \E b \in CmpViews \cup StaleInvalid :
        Compared("starts_with_nocase", b,
                 IF StartsDerefsNull(src, b) THEN BOOLEAN
                 ELSE {strview_starts_with_nocase(src, b)})

\* strview_compare is called with well-formed operands
Compare ==
    /\ src \in CmpViews
    /\ \E b \in CmpViews :
          Compared("compare", b, {strview_compare(src, b)})

NextCmp ==
    \/ IsMatch
    \/ IsMatchNocase
    \/ StartsWith
    \/ StartsWithNocase
    \/ Compare

SpecCmp == InitCmp /\ [][NextCmp]_vars

----------------------------------------------------------------------------
(* The trimmer: a view is trimmed again and again, v = strview_trim(v, c). *)
(* pre is the view before the call, arg.delimiters the characters to trim, *)
(* res and src the view returned.                                          *)

\* the character sets tried: "/", "a", "/a", "", an invalid view and every
\* view into the text
TrimSets == DelimSets \cup TextViews

InitTrim ==
    /\ mem \in Strings(Chars, MaxLen)
    /\ src \in TextViews \cup {STRVIEW_INVALID}
    /\ res = STRVIEW_INVALID
    /\ pre = src
    /\ op = "cstr"
    /\ arg = NoArg
    /\ eol = 0
    /\ hist = << >>
    /\ cuts = << >>

Trimmed(name, c, r) ==
    /\ op' = name
    /\ arg' = [NoArg EXCEPT !.delimiters = c]
    /\ pre' = src
    /\ res' = r
    /\ src' = r
    /\ UNCHANGED <<mem, eol, hist, cuts>>

TrimStart ==
    \E c \in TrimSets : Trimmed("trim_start", c, strview_trim_start(src, c))

TrimEnd ==
    \E c \in TrimSets : Trimmed("trim_end", c, strview_trim_end(src, c))

Trim ==
    \E c \in TrimSets : Trimmed("trim", c, strview_trim(src, c))

NextTrim == TrimStart \/ TrimEnd \/ Trim

SpecTrim == InitTrim /\ [][NextTrim]_vars

----------------------------------------------------------------------------
(* The caller: starting from a well-formed view of a text, any sequence of *)
(* slicing, trimming, searching, splitting, swapping and copying calls.    *)
(* hist holds the view the caller started from.  A call that takes its     *)
(* source by value either                                                  *)
(* leaves the source alone (w = f(v, ..)) or overwrites it with the view   *)
(* returned (v = f(v, ..)); a splitting call updates the source through    *)
(* its pointer.  eol is the caller's eol variable for strview_split_line.  *)

\* the indexes tried by the caller
SeqIdx == {IntMin, 0 - 1, 0, 1, MaxLen + 1, IntMax}

\* the begin and end indexes the caller slices with
SeqBegin == {0 - 1, 0, 1}
SeqEnd == {0 - 1, 1, IntMax}

\* the chars of the caller's texts
SeqChars == {CR, LF}

\* the character sets, delimiter sets and needles tried by the caller:
\* "\r\n", "\n" (the tail of the "\r\n" literal) and an invalid view
SeqSets == {LitCRLF, cstr(LitAddr(2)), STRVIEW_INVALID}

\* the calls that return a view, or leave one in res
ViewCalls ==
    {"sub", "trim_start", "trim_end", "trim", "find_first", "find_last",
     "split_first_delimeter", "split_last_delimeter", "split_index",
     "split_left", "split_right", "split_line", "swap"}

\* the calls that update the source through its pointer
SplittingCalls ==
    {"split_first_delimeter", "split_last_delimeter", "split_index",
     "split_left", "split_right", "pop_first_char", "split_line"}

InitSeq ==
    /\ mem \in Strings(SeqChars, MaxLen)
    /\ src \in TextViews \cup {STRVIEW_INVALID}
    /\ res = STRVIEW_INVALID
    /\ pre = src
    /\ op = "cstr"
    /\ arg = NoArg
    /\ eol = 0
    /\ hist = <<src>>
    /\ cuts = << >>

Returned(name, r, s, e) ==
    /\ op' = name
    /\ arg' = NoArg
    /\ pre' = src
    /\ res' = r
    /\ src' = s
    /\ eol' = e
    /\ UNCHANGED <<mem, hist, cuts>>

ByValue(name, r) ==
    \E keep \in BOOLEAN : Returned(name, r, IF keep THEN src ELSE r, eol)

ByPointer(name, r) == Returned(name, r.res, r.src, eol)

SeqSub ==
    \E b \in SeqBegin, e \in SeqEnd : ByValue("sub", strview_sub(src, b, e))

SeqTrimStart ==
    \E c \in SeqSets : ByValue("trim_start", strview_trim_start(src, c))

SeqTrimEnd ==
    \E c \in SeqSets : ByValue("trim_end", strview_trim_end(src, c))

SeqTrim ==
    \E c \in SeqSets : ByValue("trim", strview_trim(src, c))

SeqFindFirst ==
    \E n \in SeqSets : ByValue("find_first", strview_find_first(src, n))

SeqFindLast ==
    \E n \in SeqSets : ByValue("find_last", strview_find_last(src, n))

SeqSplitFirstDelimeter ==
    \E d \in SeqSets :
        \/ ByPointer("split_first_delimeter",
                     strview_split_first_delimeter(src, d))
        \/ ByPointer("split_first_delimeter",
                     strview_split_first_delimiter_nocase(src, d))

SeqSplitLastDelimeter ==
    \E d \in SeqSets :
        \/ ByPointer("split_last_delimeter",
                     strview_split_last_delimeter(src, d))
        \/ ByPointer("split_last_delimeter",
                     strview_split_last_delimeter_nocase(src, d))

SeqSplitIndex ==
    \E n \in SeqIdx : ByPointer("split_index", strview_split_index(src, n))

\* pos is what a search of the source returned
SeqSplitLeft ==
    \E n \in SeqSets :
        \E pos \in {strview_find_first(src, n), strview_find_last(src, n)} :
            ByPointer("split_left", strview_split_left(src, pos))

SeqSplitRight ==
    \E n \in SeqSets :
        \E pos \in {strview_find_first(src, n), strview_find_last(src, n)} :
            ByPointer("split_right", strview_split_right(src, pos))

SeqPopFirstChar ==
    LET r == strview_pop_first_char(src)
    IN  Returned("pop_first_char", r.ch, r.src, eol)

SeqSplitLine ==
    \E eolp \in BOOLEAN :
        LET r == strview_split_line(src, eolp, eol)
        IN  Returned("split_line", r.res, r.src, r.eol)

\* strview_swap(&src, &res): the caller exchanges its source with the view
\* the last call returned
SeqSwap ==
    /\ op \in ViewCalls \cup {"cstr"}
    /\ LET r == strview_swap(src, res)
       IN  Returned("swap", r.b, r.a, eol)

\* strview_to_cstr(dst, dst_size, src) with the destination inside the
\* storage of the text (Len(mem) chars and the NUL), or NULL; res is the
\* pointer returned
SeqToCstr ==
    \E dst \in 0..(Len(mem) + 1) :
        \E dst_size \in 0..(Len(mem) + 2 - dst) :
            /\ dst = 0 => dst_size <= 1
            /\ mem' \in strview_to_cstr(mem, dst, dst_size, src)
            /\ op' = "to_cstr"
            /\ arg' = NoArg
            /\ pre' = src
            /\ res' = dst
            /\ UNCHANGED <<src, eol, hist, cuts>>

NextSeq ==
    \/ SeqSwap
    \/ SeqToCstr
    \/ SeqSub
    \/ SeqTrimStart
    \/ SeqTrimEnd
    \/ SeqTrim
    \/ SeqFindFirst
    \/ SeqFindLast
    \/ SeqSplitFirstDelimeter
    \/ SeqSplitLastDelimeter
    \/ SeqSplitIndex
    \/ SeqSplitLeft
    \/ SeqSplitRight
    \/ SeqPopFirstChar
    \/ SeqSplitLine

SpecSeq == InitSeq /\ [][NextSeq]_vars

----------------------------------------------------------------------------
(* Reference notions the claims are stated with *)

Min(S) == CHOOSE x \in S : \A y \in S : x <= y
Max(S) == CHOOSE x \in S : \A y \in S : x >= y

\* c is a member of the delimiter set d
IsDelim(c, d, nocase) ==
    /\ strview_is_valid(d)
    /\ \E j \in 0..(d.size - 1) :
          IF nocase THEN toupper(Byte(d.data + j)) = toupper(c)
          ELSE Byte(d.data + j) = c

\* the offsets of v that hold a member of d
DelimOffsets(v, d, nocase) ==
    {i \in 0..(v.size - 1) : IsDelim(Byte(v.data + i), d, nocase)}

\* v[a:b] as bytes
Slice(v, a, b) == SubSeq(Content(v), a + 1, b)

\* pos lies inside v
Inside(pos, v) ==
    /\ pos.size >= 0
    /\ v.data <= pos.data
    /\ pos.data + pos.size <= v.data + v.size

----------------------------------------------------------------------------
(* Claims on the splitting machine (specification Spec) *)

\* C1: strview_split_first_delimeter and its nocase variant, delimiter found:
\* with i the offset of the first member of the delimiter set in a valid
\* source, the call returns src[0:i] and leaves src[i+1:] in the source, which
\* stays valid; it is Valid-empty when the delimiter was the last character.
C1_SplitFirstFound ==
    (/\ op = "split_first_delimeter"
     /\ strview_is_valid(pre)
     /\ DelimOffsets(pre, arg.delimiters, arg.nocase) # {})
    => LET i == Min(DelimOffsets(pre, arg.delimiters, arg.nocase)) IN
        /\ res = [data |-> pre.data, size |-> i]
        /\ strview_is_valid(src)
        /\ src.size = pre.size - i - 1
        /\ src.size > 0 => src.data = pre.data + i + 1
        /\ Content(src) = Slice(pre, i + 1, pre.size)
        /\ i = pre.size - 1 => (strview_is_valid(src) /\ src.size = 0)

\* a case-insensitive split whose delimiter is the last character of a
\* source of two or more characters
C1_Witness ==
    /\ op = "split_first_delimeter"
    /\ arg.nocase
    /\ strview_is_valid(pre)
    /\ pre.size >= 2
    /\ DelimOffsets(pre, arg.delimiters, TRUE) # {}
    /\ DelimOffsets(pre, arg.delimiters, FALSE) = {}
    /\ Min(DelimOffsets(pre, arg.delimiters, TRUE)) = pre.size - 1
    /\ res.size = pre.size - 1
    /\ strview_is_valid(src)
    /\ src.size = 0

\* C6 as claimed: strview_split_right with a valid pos inside a valid source
\* returns everything from the end of pos onward and leaves in the source
\* everything up to the start of pos.
C6_SplitRightDropsPos ==
    (/\ op = "split_right"
     /\ strview_is_valid(pre)
     /\ strview_is_valid(arg.pos)
     /\ Inside(arg.pos, pre))
    => /\ res = [data |-> arg.pos.data + arg.pos.size,
                 size |-> (pre.data + pre.size) - (arg.pos.data + arg.pos.size)]
       /\ src = [data |-> pre.data, size |-> arg.pos.data - pre.data]

\* C6 amended: strview_split_right with a valid pos inside a valid source
\* returns everything from the end of pos onward and leaves in the source
\* everything up to the end of pos: only the returned view is removed, the
\* bytes of pos stay in the source.
C6_SplitRightKeepsPos ==
    (/\ op = "split_right"
     /\ strview_is_valid(pre)
     /\ strview_is_valid(arg.pos)
     /\ Inside(arg.pos, pre))
    => /\ res = [data |-> arg.pos.data + arg.pos.size,
                 size |-> (pre.data + pre.size) - (arg.pos.data + arg.pos.size)]
       /\ src = [data |-> pre.data,
                 size |-> (arg.pos.data + arg.pos.size) - pre.data]
       /\ Content(src) \o Content(res) = Content(pre)

\* a split around a non-empty pos strictly inside the source
C6_Witness ==
    /\ op = "split_right"
    /\ strview_is_valid(pre)
    /\ strview_is_valid(arg.pos)
    /\ Inside(arg.pos, pre)
    /\ arg.pos.size > 0
    /\ arg.pos.data > pre.data
    /\ res.size > 0
    /\ src.size = (arg.pos.data + arg.pos.size) - pre.data

\* the boundary a position split cuts at
Boundary(name, pos) ==
    IF name = "split_left" THEN pos.data ELSE pos.data + pos.size

\* C7: strview_split_left and strview_split_right return Invalid and leave
\* the source exactly as it was when the source or pos is Invalid or the
\* boundary (start of pos for split_left, end of pos for split_right) lies
\* outside [src.start, src.end].
C7_SplitPosOutside ==
    (/\ op \in {"split_left", "split_right"}
     /\ \/ ~strview_is_valid(pre)
        \/ ~strview_is_valid(arg.pos)
        \/ Boundary(op, arg.pos) < pre.data
        \/ Boundary(op, arg.pos) > pre.data + pre.size)
    => /\ res = STRVIEW_INVALID
       /\ src = pre

\* a split_left of a non-empty source at a valid pos of the same text that
\* starts beyond the end of the source
C7_Witness ==
    /\ op = "split_left"
    /\ strview_is_valid(pre)
    /\ pre.size > 0
    /\ arg.pos \in TextViews
    /\ arg.pos.data > pre.data + pre.size
    /\ res = STRVIEW_INVALID
    /\ src = pre

\* C8: strview_split_index on a valid view v: n >= 0 returns v[0:m] and leaves
\* v[m:], n < 0 returns the last m characters and leaves the head, with
\* m = min(|n|, length); both pieces are valid, disjoint, and in their
\* original order they concatenate to v.
C8_SplitIndexRoundTrip ==
    (op = "split_index" /\ strview_is_valid(pre))
    => LET n == arg.index
           \* min(|n|, length), without forming |INT_MIN|
           m == IF n >= 0 THEN (IF n < pre.size THEN n ELSE pre.size)
                ELSE (IF n > 0 - pre.size THEN 0 - n ELSE pre.size)
       IN  /\ strview_is_valid(res) /\ strview_is_valid(src)
           /\ n >= 0 => /\ res = [data |-> pre.data, size |-> m]
                        /\ src = [data |-> pre.data + m, size |-> pre.size - m]
                        /\ Content(res) \o Content(src) = Content(pre)
           /\ n < 0  => /\ res = [data |-> pre.data + pre.size - m, size |-> m]
                        /\ src = [data |-> pre.data, size |-> pre.size - m]
                        /\ Content(src) \o Content(res) = Content(pre)

\* a negative index beyond the length of a source of two or more characters
C8_Witness ==
    /\ op = "split_index"
    /\ strview_is_valid(pre)
    /\ pre.size >= 2
    /\ arg.index < 0 - pre.size
    /\ res = pre
    /\ src = [data |-> pre.data, size |-> 0]

\* C9: strview_split_last_delimeter and its nocase variant on a valid source:
\* with i the offset of the last member of the delimiter set, the call
\* returns src[i+1:] and leaves src[0:i], both valid; without any member it
\* returns the whole source and sets the source Invalid.
C9_SplitLast ==
    (op = "split_last_delimeter" /\ strview_is_valid(pre))
    => LET offs == DelimOffsets(pre, arg.delimiters, arg.nocase) IN
       IF offs # {}
       THEN LET i == Max(offs) IN
            /\ strview_is_valid(res)
            /\ res.size = pre.size - i - 1
            /\ res.size > 0 => res.data = pre.data + i + 1
            /\ src = [data |-> pre.data, size |-> i]
            /\ Content(res) = Slice(pre, i + 1, pre.size)
       ELSE /\ res = pre
            /\ src = STRVIEW_INVALID

\* the last delimiter is the last character of a source of two or more
\* characters: the returned view is Valid-empty
C9_Witness ==
    /\ op = "split_last_delimeter"
    /\ strview_is_valid(pre)
    /\ pre.size >= 2
    /\ DelimOffsets(pre, arg.delimiters, arg.nocase) # {}
    /\ Max(DelimOffsets(pre, arg.delimiters, arg.nocase)) = pre.size - 1
    /\ strview_is_valid(res)
    /\ res.size = 0
    /\ src.size = pre.size - 1

----------------------------------------------------------------------------
(* Claims on the delimiter loop (specification SpecLoop) *)

\* the returned pieces h[j..], each followed by the delimiter it was cut at
RECURSIVE JoinPieces(_, _)
JoinPieces(h, j) ==
    IF j > Len(h) THEN << >>
    ELSE Content(h[j])
         \o (IF j < Len(h) THEN <<Byte(h[j].data + h[j].size)>> ELSE << >>)
         \o JoinPieces(h, j + 1)

\* k, the number of characters of the starting view that are delimiters
LoopDelimCount == Cardinality(DelimOffsets(arg.view, arg.delimiters, arg.nocase))

\* C2: splitting a valid view by a non-empty delimiter set until the source
\* is Invalid takes exactly k+1 calls, k the number of delimiter characters
\* of the view; the k+1 pieces joined by the consumed delimiters are the
\* view's content; with k = 0 the one call returns the whole view.
C2_SplitFirstRoundTrip ==
    /\ strview_is_valid(src) => Len(hist) <= LoopDelimCount
    /\ ~strview_is_valid(src) =>
          /\ Len(hist) = LoopDelimCount + 1
          /\ \A j \in 1..Len(hist) : strview_is_valid(hist[j])
          /\ JoinPieces(hist, 1) = Content(arg.view)
          /\ LoopDelimCount = 0 => hist = <<arg.view>>

\* a loop that ended after three calls, the last piece empty
C2_Witness ==
    /\ ~strview_is_valid(src)
    /\ Len(hist) = 3
    /\ hist[1].size > 0
    /\ hist[3].size = 0
    /\ LoopDelimCount = 2

----------------------------------------------------------------------------
(* Claims on the line reader (specification SpecBuf) *)

\* the offsets of v that hold CR or LF
EolOffsets(v) == {i \in 0..(v.size - 1) : Byte(v.data + i) \in {CR, LF}}

\* every buffer of the text was received and the reader has drained it
ReaderDone ==
    /\ BytesFed = Len(mem)
    /\ op = "split_line"
    /\ ~strview_is_valid(res)

\* the lines strview_split_line returns for the view sv, called with the
\* same eol variable until it returns Invalid
RECURSIVE LinesFrom(_, _)
LinesFrom(sv, e) ==
    LET r == strview_split_line(sv, TRUE, e) IN
    IF strview_is_valid(r.res) THEN <<Content(r.res)>> \o LinesFrom(r.src, r.eol)
    ELSE << >>

\* the lines of the whole text processed in one buffer
WholeTextLines == LinesFrom([data |-> 1, size |-> Len(mem)], 0)

\* C3: whenever strview_split_line finds no CR or LF in the data it scans it
\* returns Invalid and leaves the source with the pointer and length it had
\* before the call, whatever the eol state passed in.
C3_SplitLineNotFoundKeepsSrc ==
    (/\ op = "split_line"
     /\ EolOffsets(line_scan_start(pre, arg.eolp, arg.eol)) = {})
    => /\ res = STRVIEW_INVALID
       /\ src = pre

\* C4: with the eol variable passed to every call, the lines returned for a
\* text received in successive buffers are the lines returned for the whole
\* text in one buffer, wherever the buffer boundaries fall.
C4_BufferedLinesSame ==
    (arg.eolp /\ ReaderDone) => hist = WholeTextLines

\* C5: within one buffer, a call on a source that holds a CR or LF returns
\* the bytes before the first of them and removes that line and exactly one
\* terminator: the found byte with the next byte when that is the
\* complementary one, the found byte alone otherwise.  On the scenario text
\* "line1\r\nline2\rline3" the calls return "line1", "line2", then Invalid
\* with "line3" left.
C5_SplitLineOneBuffer ==
    /\ (/\ cuts = <<Len(mem)>>
        /\ op = "split_line"
        /\ EolOffsets(pre) # {})
       => LET i == Min(EolOffsets(pre))
              f == Byte(pre.data + i)
              t == IF /\ i + 1 < pre.size
                      /\ {f, Byte(pre.data + i + 1)} = {CR, LF}
                   THEN 2 ELSE 1
          IN  /\ res = [data |-> pre.data, size |-> i]
              /\ strview_is_valid(src)
              /\ src.size = pre.size - i - t
              /\ src.size > 0 => src.data = pre.data + i + t
              /\ Content(src) = Slice(pre, i + t, pre.size)
    /\ (mem = ScenarioText /\ ReaderDone)
       => /\ hist = << <<108, 105, 110, 101, 49>>, <<108, 105, 110, 101, 50>> >>
          /\ Content(src) = <<108, 105, 110, 101, 51>>

\* one buffer "x\n\r": the line x is returned and LF CR is consumed as one
\* terminator
C5_Witness ==
    /\ cuts = <<Len(mem)>>
    /\ op = "split_line"
    /\ pre = [data |-> 1, size |-> 3]
    /\ Byte(2) = LF
    /\ Byte(3) = CR
    /\ res = [data |-> 1, size |-> 1]
    /\ strview_is_valid(src)
    /\ src.size = 0

----------------------------------------------------------------------------
(* Claims on the slicer (specification SpecSub) *)

\* begin and end of the last strview_sub call with a negative index
\* resolved as length + index
SubBegin == IF arg.index < 0 THEN pre.size + arg.index ELSE arg.index
SubEnd   == IF arg.end < 0 THEN pre.size + arg.end ELSE arg.end

\* C10 as claimed: for a valid view and a resolved range that is empty or
\* inverted, strview_sub returns a zero-length view anchored at the view's
\* data pointer.
C10_SubEmptyAnchored ==
    (/\ op = "sub"
     /\ strview_is_valid(pre)
     /\ SubBegin >= SubEnd)
    => res = [data |-> pre.data, size |-> 0]

\* C10 amended: for a valid view and a resolved range that is empty or
\* inverted, strview_sub returns a zero-length view that is anchored at the
\* view's data pointer when the view is empty, anchored at data + begin when
\* the view is not empty and begin = end lies in [0, length), and Invalid
\* when the view is not empty and the range is inverted or begin = end lies
\* outside [0, length).
C10_SubEmptyOrInvalid ==
    (/\ op = "sub"
     /\ strview_is_valid(pre)
     /\ SubBegin >= SubEnd)
    => IF pre.size = 0
       THEN res = [data |-> pre.data, size |-> 0]
       ELSE IF SubBegin = SubEnd /\ 0 <= SubBegin /\ SubBegin < pre.size
       THEN res = [data |-> pre.data + SubBegin, size |-> 0]
       ELSE res = STRVIEW_INVALID

\* an inverted range inside a view of two or more characters
C10_Witness ==
    /\ op = "sub"
    /\ strview_is_valid(pre)
    /\ pre.size >= 2
    /\ arg.index = 1
    /\ arg.end = 0
    /\ res = STRVIEW_INVALID

\* C11: for a valid view v, strview_sub(v, 0, length) has the content of v,
\* and for 0 <= begin < length and any end >= length up to INT_MAX,
\* strview_sub(v, begin, end) is v[begin:length]; strview_sub(v, 0, INT_MAX)
\* is the whole of v.
C11_SubEndClipped ==
    (op = "sub" /\ strview_is_valid(pre))
    => /\ (arg.index = 0 /\ arg.end = pre.size)
          => /\ strview_is_valid(res)
             /\ res.size = pre.size
             /\ Content(res) = Content(pre)
       /\ (0 <= arg.index /\ arg.index < pre.size /\ arg.end >= pre.size)
          => /\ res = [data |-> pre.data + arg.index,
                       size |-> pre.size - arg.index]
             /\ Content(res) = Slice(pre, arg.index, pre.size)
       /\ (arg.index = 0 /\ arg.end = IntMax) => res = pre

\* the rest of a view of two or more characters from offset 1, asked for
\* with INT_MAX as end
C11_Witness ==
    /\ op = "sub"
    /\ strview_is_valid(pre)
    /\ pre.size >= 2
    /\ arg.index = 1
    /\ arg.end = IntMax
    /\ res = [data |-> pre.data + 1, size |-> pre.size - 1]

----------------------------------------------------------------------------
(* Claims on the searcher (specification SpecFind) *)

\* the offsets of h at which the bytes of n occur
Occurrences(h, n) ==
    {i \in 0..(h.size - n.size) :
        \A j \in 0..(n.size - 1) : Byte(h.data + i + j) = Byte(n.data + j)}

\* C12: for a valid haystack h and a valid non-empty needle n,
\* strview_find_first returns the view of length |n| at the smallest offset
\* of h where n occurs and strview_find_last the one at the largest; each
\* returns Invalid exactly when h or n is Invalid or n does not occur in h;
\* strview_contains is true exactly when n is found.
C12_FindFirstLast ==
    LET h == pre
        n == arg.view
        occ == Occurrences(h, n)
        absent == ~strview_is_valid(h) \/ ~strview_is_valid(n) \/ occ = {}
    IN  (op \in {"find_first", "find_last", "contains"}
         /\ (strview_is_valid(n) => n.size > 0))
        => /\ op = "find_first" =>
                 IF absent THEN res = STRVIEW_INVALID
                 ELSE res = [data |-> h.data + Min(occ), size |-> n.size]
           /\ op = "find_last" =>
                 IF absent THEN res = STRVIEW_INVALID
                 ELSE res = [data |-> h.data + Max(occ), size |-> n.size]
           /\ op = "contains" => res = (~absent)

\* a needle of two bytes that occurs twice in the haystack, found last at
\* offset 1
C12_Witness ==
    /\ op = "find_last"
    /\ strview_is_valid(pre)
    /\ strview_is_valid(arg.view)
    /\ arg.view.size = 2
    /\ Cardinality(Occurrences(pre, arg.view)) = 2
    /\ res = [data |-> pre.data + 1, size |-> 2]

----------------------------------------------------------------------------
(* Claims on the comparer (specification SpecCmp) *)

\* C13: strview_compare(a, b) is > 0 whenever b is Invalid and a is valid,
\* < 0 whenever a is Invalid and b is valid, and 0 when both are Invalid,
\* for every valid operand, a valid view of length 0 included.
C13_CompareInvalid ==
    op = "compare"
    => /\ (strview_is_valid(pre) /\ ~strview_is_valid(arg.view)) => res > 0
       /\ (~strview_is_valid(pre) /\ strview_is_valid(arg.view)) => res < 0
       /\ (~strview_is_valid(pre) /\ ~strview_is_valid(arg.view)) => res = 0

\* C14: for every pair of Invalid views, whatever sizes they store,
\* strview_is_match and strview_is_match_nocase return true.
C14_InvalidViewsMatch ==
    (/\ op \in {"is_match", "is_match_nocase"}
     /\ ~strview_is_valid(pre)
     /\ ~strview_is_valid(arg.view))
    => res = TRUE

----------------------------------------------------------------------------
(* Claims on the trimmer (specification SpecTrim) *)

\* C15: strview_trim is idempotent: trimming the result of a trim with the
\* same character set returns the same view (same start, same length), and
\* neither the first nor the last character of a non-empty result is a
\* member of the character set.
C15_TrimIdempotent ==
    op = "trim"
    => /\ res.size >= 0
       /\ res.size <= pre.size
       /\ res.size > 0
          => /\ ~contains_char(arg.delimiters, Byte(res.data), TRUE)
             /\ ~contains_char(arg.delimiters,
                               Byte(res.data + res.size - 1), TRUE)
       /\ strview_trim(res, arg.delimiters) = res

\* a trim that removed one character from each end of a view of length 3
C15_Witness ==
    /\ op = "trim"
    /\ pre.size = 3
    /\ arg.delimiters.size = 2
    /\ res = [data |-> pre.data + 1, size |-> 1]

----------------------------------------------------------------------------
(* Claims on the caller (specification SpecSeq) *)

\* x is Invalid with stored length 0, or a range inside the range of v
Subrange(x, v) ==
    \/ x = STRVIEW_INVALID
    \/ /\ x.data # 0
       /\ v.data # 0
       /\ 0 <= x.size
       /\ x.size <= v.size
       /\ v.data <= x.data
       /\ x.data + x.size <= v.data + v.size

\* C16: starting from a well-formed view v, after any sequence of calls
\* every returned view and every updated source view is Invalid with stored
\* length 0 or a contiguous range inside v, and a splitting call never
\* leaves the source longer than it found it.
C16_SubrangeInvariant ==
    /\ Subrange(src, hist[1])
    /\ op \in ViewCalls => Subrange(res, hist[1])
    /\ op \in SplittingCalls => src.size <= pre.size

\* a split at a position found in a source that earlier calls had already
\* moved forward: both halves are non-empty
C16_Witness ==
    /\ op = "split_right"
    /\ pre.data > hist[1].data
    /\ strview_is_valid(res)
    /\ res.size >= 1
    /\ src.size >= 1
    /\ src.data = pre.data
    /\ res.data = src.data + src.size

====
